---- MODULE Spec2Model ----
(***************************************************************************)
(* The audio response pipeline of src/app/page.tsx (component Home):       *)
(* handleAudioResponse, its inner cleanup and animate, the play / pause /  *)
(* ended listeners, togglePlayback and the unmount effect.                 *)
(*                                                                         *)
(* The page runs on one thread.  A step of the model is one run-to-        *)
(* completion piece of code: a task (a call, an event delivery, a frame    *)
(* callback, the settling of a browser promise) or one continuation of an  *)
(* async function, taken from the microtask queue in FIFO order.  Tasks    *)
(* run only when the microtask queue is empty; a caller may submit a new   *)
(* payload at any point (from its own task or its own continuation).       *)
(*                                                                         *)
(* Call number c of handleAudioResponse with a playable clip builds        *)
(* AudioContext c, analyser c, source node c, Audio element c and object   *)
(* URL c, so a ref holds NULL or the number of the call that built the     *)
(* object it points to.                                                    *)
(***************************************************************************)
EXTENDS Integers, Sequences, FiniteSets, TLC

MaxClips == 2
MaxHandles == 5
MaxLiveReads == 1

NULL == 0

Clips == 1..MaxClips

Handles == 1..MaxHandles

LivePayloads == {<<10, 20, 30>>}

Absent == [kind |-> "undefined", bytes |-> <<>>]

(* A snapshot sized from the payload and never filled from it. *)
Frame_Zeroed(b) == [kind |-> "frame", bytes |-> [i \in 1..Len(b) |-> 0]]

(* new Uint8Array(arrayBuffer), line 81: the bytes of the payload, in order. *)
Frame(b) == [kind |-> "frame", bytes |-> b]

Sample == [kind |-> "sample", bytes |-> <<>>]

VARIABLES
  isPlaying,            \* useState isPlaying
  audioData,            \* useState audioData
  audioContextRef,      \* the refs: NULL or the number of the call that built the object
  analyserRef,
  audioSourceRef,
  animationFrameRef,    \* NULL or a requestAnimationFrame handle
  audioRef,
  currentAudioUrlRef,
  ctxState,             \* AudioContext c: "none", "running", "closing", "closed"
  closeCalls,           \* how often close() was called on AudioContext c
  urlState,             \* object URL c: "none", "live", "revoked"
  revokeCalls,          \* how often URL.revokeObjectURL was called on URL c
  paused,               \* Audio element c: its paused attribute
  media,                \* Audio element c: "start" (currentTime 0), "end" (ended) or
                        \* "error" (the resource could not be loaded)
  events,               \* Audio element c: events queued and not yet dispatched
  playPromise,          \* the promise of line 183: "none", "pending", "aborting", "settled"
  connected,            \* the calls whose source -> analyser -> destination is connected
  rafPending,           \* the frame callbacks requested and neither run nor cancelled
  pc,                   \* where call c of handleAudioResponse stands
  awaiting,             \* the AudioContext whose close() call c awaits at line 107
  microtasks,           \* the continuations ready to run, FIFO
  mounted,              \* the component is mounted
  nextClip,             \* the number of the next call with a playable clip
  liveReads,            \* the live frames whose arrayBuffer() of line 80 is pending
  threwTypeError,       \* a call of handleAudioResponse has thrown at line 78
  pauseRequested,       \* togglePlayback was called while isPlaying was true, and
                        \* no handler has set isPlaying to false since
  ticksSinceSignal      \* the frame callbacks run since the last play, pause or
                        \* ended listener ran: 0, 1, or 2 for two and more

vars == <<isPlaying, audioData, audioContextRef, analyserRef, audioSourceRef,
          animationFrameRef, audioRef, currentAudioUrlRef, ctxState, closeCalls,
          urlState, revokeCalls, paused, media, events, playPromise,
          connected, rafPending, pc, awaiting, microtasks, mounted, nextClip,
          liveReads, threwTypeError, pauseRequested, ticksSinceSignal>>

Init ==
  /\ isPlaying = FALSE
  /\ audioData = Absent
  /\ audioContextRef = NULL
  /\ analyserRef = NULL
  /\ audioSourceRef = NULL
  /\ animationFrameRef = NULL
  /\ audioRef = NULL
  /\ currentAudioUrlRef = NULL
  /\ ctxState = [c \in Clips |-> "none"]
  /\ closeCalls = [c \in Clips |-> 0]
  /\ urlState = [c \in Clips |-> "none"]
  /\ revokeCalls = [c \in Clips |-> 0]
  /\ paused = [c \in Clips |-> TRUE]
  /\ media = [c \in Clips |-> "start"]
  /\ events = [c \in Clips |-> <<>>]
  /\ playPromise = [c \in Clips |-> "none"]
  /\ connected = {}
  /\ rafPending = {}
  /\ pc = [c \in Clips |-> "idle"]
  /\ awaiting = [c \in Clips |-> NULL]
  /\ microtasks = <<>>
  /\ mounted = TRUE
  /\ nextClip = 1
  /\ liveReads = <<>>
  /\ threwTypeError = FALSE
  /\ pauseRequested = FALSE
  /\ ticksSinceSignal = 0

----
(* React state setters: an update of an unmounted component is dropped. *)

SetIsPlaying(v) == isPlaying' = IF mounted THEN v ELSE isPlaying

SetAudioData(v) == audioData' = IF mounted THEN v ELSE audioData

----
(* HTMLMediaElement.pause() on element e (NULL: no element): a playing     *)
(* element becomes paused, a pause event is queued, and a pending play     *)
(* promise is taken to be rejected when that event is dispatched.          *)

PausedAfterPause(e) ==
  IF e # NULL THEN [paused EXCEPT ![e] = TRUE] ELSE paused

EventsAfterPause(e) ==
  IF e # NULL /\ ~paused[e] THEN [events EXCEPT ![e] = Append(@, "pause")] ELSE events

PromiseAfterPause(e) ==
  IF e # NULL /\ ~paused[e] /\ playPromise[e] = "pending"
    THEN [playPromise EXCEPT ![e] = "aborting"]
    ELSE playPromise

(* The src attribute of element e: the object URL bound at line 135. *)
ElemSrc(e) == IF urlState[e] # "none" THEN e ELSE NULL

----
(* requestAnimationFrame / cancelAnimationFrame.  A handle is fresh when no *)
(* pending callback carries it; the only place a handle is kept is          *)
(* animationFrameRef, which the caller overwrites with the new handle.      *)

FreshHandle(pend) == CHOOSE h \in Handles \ pend : \A g \in Handles \ pend : h <= g

CancelAnimationFrame(pend, h) == pend \ {h}

(* animate, lines 146-153, run with the callbacks `pend` still pending. *)
animate(pend) ==
  IF analyserRef = NULL
    THEN /\ rafPending' = pend
         /\ UNCHANGED <<audioData, animationFrameRef>>
    ELSE /\ Handles \ pend # {}
         /\ SetAudioData(Sample)
         /\ animationFrameRef' = FreshHandle(pend)
         /\ rafPending' = pend \cup {FreshHandle(pend)}

----
(* cleanup, lines 110-115: what runs after the device context is released. *)
CleanupTail ==
  /\ rafPending' = (IF animationFrameRef # NULL
                      THEN CancelAnimationFrame(rafPending, animationFrameRef)
                      ELSE rafPending)
  /\ animationFrameRef' = NULL
  /\ SetAudioData(Absent)
  /\ SetIsPlaying(FALSE)
  /\ pauseRequested' = FALSE

(* AudioContext.close(), line 107 and line 34: the call is counted; a      *)
(* running context starts closing, any other context rejects the call.     *)
CloseAccepted(k) == ctxState[k] = "running"

CtxAfterClose(k) ==
  IF CloseAccepted(k) THEN [ctxState EXCEPT ![k] = "closing"] ELSE ctxState

(* A revoke that is forgotten: the superseded object URL stays live. *)
UrlAfterRevoke_Forgotten(u) == urlState

(* URL.revokeObjectURL(u), line 122 and line 37. *)
UrlAfterRevoke(u) == [urlState EXCEPT ![u] = "revoked"]

(* handleAudioResponse with a playable clip, lines 76-107: call c starts,  *)
(* runs cleanup up to its await of close(), or to its end when there is no *)
(* device context.                                                         *)
HandleAudioResponse(c) ==
  /\ UNCHANGED ticksSinceSignal
  /\ UNCHANGED threwTypeError
  /\ c = nextClip
  /\ c \in Clips
  /\ nextClip' = c + 1
  /\ paused' = PausedAfterPause(audioRef)
  /\ events' = EventsAfterPause(audioRef)
  /\ playPromise' = PromiseAfterPause(audioRef)
  /\ audioSourceRef' = NULL
  /\ analyserRef' = NULL
  /\ connected' = connected \ {audioSourceRef, analyserRef}
  /\ IF audioContextRef # NULL
       THEN /\ closeCalls' = [closeCalls EXCEPT ![audioContextRef] = @ + 1]
            /\ ctxState' = CtxAfterClose(audioContextRef)
            /\ IF CloseAccepted(audioContextRef)
                 THEN /\ pc' = [pc EXCEPT ![c] = "awaitClose"]
                      /\ awaiting' = [awaiting EXCEPT ![c] = audioContextRef]
                 ELSE /\ pc' = [pc EXCEPT ![c] = "threw"]
                      /\ UNCHANGED awaiting
            /\ UNCHANGED <<audioContextRef, animationFrameRef, rafPending,
                           audioData, isPlaying, microtasks, pauseRequested>>
       ELSE /\ CleanupTail
            /\ pc' = [pc EXCEPT ![c] = "awaitCleanup"]
            /\ microtasks' = Append(microtasks, <<c, "main">>)
            /\ UNCHANGED <<audioContextRef, closeCalls, ctxState, awaiting>>
  /\ UNCHANGED <<audioRef, currentAudioUrlRef, urlState, revokeCalls, media,
                 mounted, liveReads>>

(* The device context k finishes closing; the call awaiting it may go on. *)
ContextClosed(k) ==
  /\ UNCHANGED ticksSinceSignal
  /\ UNCHANGED <<threwTypeError, pauseRequested>>
  /\ microtasks = <<>>
  /\ ctxState[k] = "closing"
  /\ ctxState' = [ctxState EXCEPT ![k] = "closed"]
  /\ microtasks' = (IF \E c \in Clips : pc[c] = "awaitClose" /\ awaiting[c] = k
                      THEN << <<CHOOSE c \in Clips : pc[c] = "awaitClose" /\ awaiting[c] = k,
                                "closed">> >>
                      ELSE <<>>)
  /\ UNCHANGED <<isPlaying, audioData, audioContextRef, analyserRef, audioSourceRef,
                 animationFrameRef, audioRef, currentAudioUrlRef, closeCalls, urlState,
                 revokeCalls, paused, media, events, playPromise, connected,
                 rafPending, pc, awaiting, mounted, nextClip, liveReads>>

(* cleanup resumed after line 107: lines 108-115, then cleanup returns. *)
CleanupResume(c) ==
  /\ UNCHANGED ticksSinceSignal
  /\ UNCHANGED threwTypeError
  /\ microtasks # <<>>
  /\ Head(microtasks) = <<c, "closed">>
  /\ audioContextRef' = NULL
  /\ CleanupTail
  /\ pc' = [pc EXCEPT ![c] = "awaitCleanup"]
  /\ awaiting' = [awaiting EXCEPT ![c] = NULL]
  /\ microtasks' = Append(Tail(microtasks), <<c, "main">>)
  /\ UNCHANGED <<analyserRef, audioSourceRef, audioRef, currentAudioUrlRef, ctxState,
                 closeCalls, urlState, revokeCalls, paused, media, events,
                 playPromise, connected, mounted, nextClip, liveReads>>

(* handleAudioResponse resumed after `await cleanup()`: lines 120-183.     *)
(* The previous object URL is revoked, the graph of clip c is built, the   *)
(* listeners are registered and play() is called.  The browser either      *)
(* refuses the request at once (allowed = FALSE: the promise is rejected,  *)
(* the element stays paused, no event) or starts playing (the paused       *)
(* attribute falls, a play event is queued, the promise is pending).       *)
BuildAndPlay(c, allowed) ==
  /\ UNCHANGED ticksSinceSignal
  /\ UNCHANGED <<threwTypeError, pauseRequested>>
  /\ microtasks # <<>>
  /\ Head(microtasks) = <<c, "main">>
  /\ IF currentAudioUrlRef # NULL
       THEN /\ urlState' = [UrlAfterRevoke(currentAudioUrlRef) EXCEPT ![c] = "live"]
            /\ revokeCalls' = [revokeCalls EXCEPT ![currentAudioUrlRef] = @ + 1]
       ELSE /\ urlState' = [urlState EXCEPT ![c] = "live"]
            /\ UNCHANGED revokeCalls
  /\ ctxState' = [ctxState EXCEPT ![c] = "running"]
  /\ audioContextRef' = c
  /\ analyserRef' = c
  /\ audioRef' = c
  /\ currentAudioUrlRef' = c
  /\ audioSourceRef' = c
  /\ connected' = connected \cup {c}
  /\ media' = [media EXCEPT ![c] = "start"]
  /\ pc' = [pc EXCEPT ![c] = "awaitPlay"]
  /\ IF allowed
       THEN /\ paused' = [paused EXCEPT ![c] = FALSE]
            /\ events' = [events EXCEPT ![c] = <<"play">>]
            /\ playPromise' = [playPromise EXCEPT ![c] = "pending"]
            /\ microtasks' = Tail(microtasks)
       ELSE /\ playPromise' = [playPromise EXCEPT ![c] = "settled"]
            /\ microtasks' = Append(Tail(microtasks), <<c, "catch">>)
            /\ UNCHANGED <<paused, events>>
  /\ UNCHANGED <<isPlaying, audioData, animationFrameRef, closeCalls,
                 rafPending, awaiting, mounted, nextClip, liveReads>>

(* A catch block that also discards the graph, as a full reset would. *)
CatchPlayError_DropsGraph(c) ==
  /\ UNCHANGED ticksSinceSignal
  /\ UNCHANGED threwTypeError
  /\ pauseRequested' = FALSE
  /\ microtasks # <<>>
  /\ Head(microtasks) = <<c, "catch">>
  /\ SetIsPlaying(FALSE)
  /\ SetAudioData(Absent)
  /\ audioSourceRef' = NULL
  /\ analyserRef' = NULL
  /\ audioContextRef' = NULL
  /\ pc' = [pc EXCEPT ![c] = "rejected"]
  /\ microtasks' = Tail(microtasks)
  /\ UNCHANGED <<animationFrameRef, audioRef, currentAudioUrlRef, ctxState,
                 closeCalls, urlState, revokeCalls, paused, media, events,
                 playPromise, connected, rafPending, awaiting, mounted, nextClip,
                 liveReads>>

(* The catch block of lines 184-190, run when the promise of line 183 is   *)
(* rejected.                                                               *)
CatchPlayError(c) ==
  /\ UNCHANGED ticksSinceSignal
  /\ UNCHANGED threwTypeError
  /\ pauseRequested' = FALSE
  /\ microtasks # <<>>
  /\ Head(microtasks) = <<c, "catch">>
  /\ SetIsPlaying(FALSE)
  /\ SetAudioData(Absent)
  /\ pc' = [pc EXCEPT ![c] = "rejected"]
  /\ microtasks' = Tail(microtasks)
  /\ UNCHANGED <<audioContextRef, analyserRef, audioSourceRef, animationFrameRef,
                 audioRef, currentAudioUrlRef, ctxState, closeCalls, urlState,
                 revokeCalls, paused, media, events, playPromise, connected,
                 rafPending, awaiting, mounted, nextClip, liveReads>>

(* The browser reports that element c is playing: the promise of line 183  *)
(* is fulfilled and the call returns.  The play event was queued first, so *)
(* it has been dispatched by now.                                          *)
PlayFulfilled(c) ==
  /\ UNCHANGED ticksSinceSignal
  /\ UNCHANGED <<threwTypeError, pauseRequested>>
  /\ microtasks = <<>>
  /\ pc[c] = "awaitPlay"
  /\ playPromise[c] = "pending"
  /\ events[c] = <<>>
  /\ playPromise' = [playPromise EXCEPT ![c] = "settled"]
  /\ pc' = [pc EXCEPT ![c] = "played"]
  /\ UNCHANGED <<isPlaying, audioData, audioContextRef, analyserRef, audioSourceRef,
                 animationFrameRef, audioRef, currentAudioUrlRef, ctxState, closeCalls,
                 urlState, revokeCalls, paused, media, events, connected,
                 rafPending, awaiting, microtasks, mounted, nextClip, liveReads>>

(* The browser cannot load the resource of element c (an undecodable clip, *)
(* a URL revoked before it was fetched): the element keeps paused = false, *)
(* and the promise of line 183 is rejected after the play event.           *)
MediaLoadFailed(c) ==
  /\ UNCHANGED ticksSinceSignal
  /\ UNCHANGED <<threwTypeError, pauseRequested>>
  /\ microtasks = <<>>
  /\ pc[c] = "awaitPlay"
  /\ playPromise[c] = "pending"
  /\ events[c] = <<>>
  /\ media' = [media EXCEPT ![c] = "error"]
  /\ playPromise' = [playPromise EXCEPT ![c] = "settled"]
  /\ microtasks' = << <<c, "catch">> >>
  /\ UNCHANGED <<isPlaying, audioData, audioContextRef, analyserRef, audioSourceRef,
                 animationFrameRef, audioRef, currentAudioUrlRef, ctxState, closeCalls,
                 urlState, revokeCalls, paused, events, connected, rafPending,
                 pc, awaiting, mounted, nextClip, liveReads>>

----
(* The listeners of lines 156-179, each run when the browser dispatches    *)
(* the event at the head of element c's queue.                             *)

OnPlay(c) ==
  /\ UNCHANGED <<threwTypeError, pauseRequested>>
  /\ microtasks = <<>>
  /\ events[c] # <<>>
  /\ Head(events[c]) = "play"
  /\ events' = [events EXCEPT ![c] = Tail(@)]
  /\ SetIsPlaying(TRUE)
  /\ animate(rafPending)
  /\ UNCHANGED <<audioContextRef, analyserRef, audioSourceRef, audioRef,
                 currentAudioUrlRef, ctxState, closeCalls, urlState, revokeCalls,
                 paused, media, playPromise, connected, pc, awaiting,
                 microtasks, mounted, nextClip, liveReads>>

(* The pause listener, lines 161-168.  The task that dispatches the event  *)
(* also rejects the play promise that pause() took.                        *)
OnPause(c) ==
  /\ UNCHANGED threwTypeError
  /\ pauseRequested' = FALSE
  /\ microtasks = <<>>
  /\ events[c] # <<>>
  /\ Head(events[c]) = "pause"
  /\ events' = [events EXCEPT ![c] = Tail(@)]
  /\ SetIsPlaying(FALSE)
  /\ rafPending' = (IF animationFrameRef # NULL
                      THEN CancelAnimationFrame(rafPending, animationFrameRef)
                      ELSE rafPending)
  /\ animationFrameRef' = NULL
  /\ SetAudioData(Absent)
  /\ IF playPromise[c] = "aborting"
       THEN /\ playPromise' = [playPromise EXCEPT ![c] = "settled"]
            /\ microtasks' = << <<c, "catch">> >>
       ELSE UNCHANGED <<playPromise, microtasks>>
  /\ UNCHANGED <<audioContextRef, analyserRef, audioSourceRef, audioRef,
                 currentAudioUrlRef, ctxState, closeCalls, urlState, revokeCalls,
                 paused, media, connected, pc, awaiting, mounted, nextClip,
                 liveReads>>

(* An ended listener that runs the full teardown instead of keeping the    *)
(* graph for replay.                                                       *)
OnEnded_FullTeardown(c) ==
  /\ UNCHANGED threwTypeError
  /\ pauseRequested' = FALSE
  /\ microtasks = <<>>
  /\ events[c] # <<>>
  /\ Head(events[c]) = "ended"
  /\ events' = [events EXCEPT ![c] = Tail(@)]
  /\ rafPending' = (IF animationFrameRef # NULL
                      THEN CancelAnimationFrame(rafPending, animationFrameRef)
                      ELSE rafPending)
  /\ animationFrameRef' = NULL
  /\ SetIsPlaying(FALSE)
  /\ SetAudioData(Absent)
  /\ audioSourceRef' = NULL
  /\ analyserRef' = NULL
  /\ connected' = connected \ {audioSourceRef, analyserRef}
  /\ UNCHANGED <<audioContextRef, audioRef, currentAudioUrlRef, ctxState,
                 closeCalls, urlState, revokeCalls, paused, media, playPromise,
                 pc, awaiting, microtasks, mounted, nextClip, liveReads>>

(* The ended listener, lines 170-179. *)
OnEnded(c) ==
  /\ UNCHANGED threwTypeError
  /\ pauseRequested' = FALSE
  /\ microtasks = <<>>
  /\ events[c] # <<>>
  /\ Head(events[c]) = "ended"
  /\ events' = [events EXCEPT ![c] = Tail(@)]
  /\ rafPending' = (IF animationFrameRef # NULL
                      THEN CancelAnimationFrame(rafPending, animationFrameRef)
                      ELSE rafPending)
  /\ animationFrameRef' = NULL
  /\ SetIsPlaying(FALSE)
  /\ SetAudioData(Absent)
  /\ UNCHANGED <<audioContextRef, analyserRef, audioSourceRef, audioRef,
                 currentAudioUrlRef, ctxState, closeCalls, urlState, revokeCalls,
                 paused, media, playPromise, connected, pc, awaiting,
                 microtasks, mounted, nextClip, liveReads>>

(* The frame callback with handle h runs: animate, lines 146-153. *)
Tick(h) ==
  /\ UNCHANGED <<threwTypeError, pauseRequested>>
  /\ microtasks = <<>>
  /\ h \in rafPending
  /\ animate(rafPending \ {h})
  /\ UNCHANGED <<isPlaying, audioContextRef, analyserRef, audioSourceRef, audioRef,
                 currentAudioUrlRef, ctxState, closeCalls, urlState, revokeCalls,
                 paused, media, events, playPromise, connected, pc, awaiting,
                 microtasks, mounted, nextClip, liveReads>>

(* Element c plays to the end of its clip: the browser pauses the element  *)
(* and queues pause, then ended.                                           *)
MediaEnded(c) ==
  /\ UNCHANGED ticksSinceSignal
  /\ UNCHANGED <<threwTypeError, pauseRequested>>
  /\ microtasks = <<>>
  /\ urlState[c] # "none"
  /\ ~paused[c]
  /\ media[c] = "start"
  /\ playPromise[c] # "pending"
  /\ events[c] = <<>>
  /\ media' = [media EXCEPT ![c] = "end"]
  /\ paused' = [paused EXCEPT ![c] = TRUE]
  /\ events' = [events EXCEPT ![c] = <<"pause", "ended">>]
  /\ UNCHANGED <<isPlaying, audioData, audioContextRef, analyserRef, audioSourceRef,
                 animationFrameRef, audioRef, currentAudioUrlRef, ctxState, closeCalls,
                 urlState, revokeCalls, playPromise, connected, rafPending,
                 pc, awaiting, microtasks, mounted, nextClip, liveReads>>

----
(* HTMLMediaElement.play() called by togglePlayback on element e: a failed *)
(* element and a refused request change nothing; otherwise a paused        *)
(* element starts playing and a play event is queued.                      *)
PausedAfterPlay(e, allowed) ==
  IF allowed /\ media[e] # "error" THEN [paused EXCEPT ![e] = FALSE] ELSE paused

EventsAfterPlay(e, allowed) ==
  IF allowed /\ media[e] # "error" /\ paused[e]
    THEN [events EXCEPT ![e] = Append(@, "play")]
    ELSE events

(* play() on an element whose playback has ended seeks to the start. *)
MediaAfterPlay(e, allowed) ==
  IF allowed /\ media[e] = "end" THEN [media EXCEPT ![e] = "start"] ELSE media

(* currentTime = 0, line 62: an element with a loaded resource is rewound. *)
MediaAfterRewind(e) ==
  IF media[e] # "error" THEN [media EXCEPT ![e] = "start"] ELSE media

(* A toggle that sets isPlaying itself instead of waiting for the event. *)
togglePlayback_SetsStatus(allowed) ==
  /\ UNCHANGED ticksSinceSignal
  /\ UNCHANGED threwTypeError
  /\ microtasks = <<>>
  /\ mounted
  /\ IF audioRef = NULL
       THEN UNCHANGED <<paused, events, playPromise, media>>
       ELSE IF isPlaying
         THEN /\ paused' = PausedAfterPause(audioRef)
              /\ events' = EventsAfterPause(audioRef)
              /\ playPromise' = PromiseAfterPause(audioRef)
              /\ UNCHANGED media
         ELSE IF ElemSrc(audioRef) # NULL
           THEN /\ media' = MediaAfterRewind(audioRef)
                /\ paused' = PausedAfterPlay(audioRef, allowed)
                /\ events' = EventsAfterPlay(audioRef, allowed)
                /\ UNCHANGED playPromise
           ELSE IF currentAudioUrlRef # NULL
             THEN /\ paused' = PausedAfterPlay(audioRef, allowed)
                  /\ events' = EventsAfterPlay(audioRef, allowed)
                  /\ media' = MediaAfterPlay(audioRef, allowed)
                  /\ UNCHANGED playPromise
             ELSE UNCHANGED <<paused, events, playPromise, media>>
  /\ isPlaying' = (IF audioRef # NULL THEN ~isPlaying ELSE isPlaying)
  /\ UNCHANGED <<audioData, audioContextRef, analyserRef, audioSourceRef,
                 animationFrameRef, audioRef, currentAudioUrlRef, ctxState, closeCalls,
                 urlState, revokeCalls, connected, rafPending, pc, awaiting,
                 microtasks, mounted, nextClip, liveReads>>

(* A toggle whose rejection handler forgets the retained object URL. *)
togglePlayback_RejectionDropsUrl(allowed) ==
  /\ UNCHANGED ticksSinceSignal
  /\ UNCHANGED threwTypeError
  /\ microtasks = <<>>
  /\ mounted
  /\ IF audioRef = NULL
       THEN UNCHANGED <<paused, events, playPromise, media>>
       ELSE IF isPlaying
         THEN /\ paused' = PausedAfterPause(audioRef)
              /\ events' = EventsAfterPause(audioRef)
              /\ playPromise' = PromiseAfterPause(audioRef)
              /\ UNCHANGED media
         ELSE IF ElemSrc(audioRef) # NULL
           THEN /\ media' = MediaAfterRewind(audioRef)
                /\ paused' = PausedAfterPlay(audioRef, allowed)
                /\ events' = EventsAfterPlay(audioRef, allowed)
                /\ UNCHANGED playPromise
           ELSE IF currentAudioUrlRef # NULL
             THEN /\ paused' = PausedAfterPlay(audioRef, allowed)
                  /\ events' = EventsAfterPlay(audioRef, allowed)
                  /\ media' = MediaAfterPlay(audioRef, allowed)
                  /\ UNCHANGED playPromise
             ELSE UNCHANGED <<paused, events, playPromise, media>>
  /\ currentAudioUrlRef' = (IF audioRef # NULL /\ ~isPlaying /\ ~allowed
                              THEN NULL
                              ELSE currentAudioUrlRef)
  /\ UNCHANGED <<isPlaying, audioData, audioContextRef, analyserRef, audioSourceRef,
                 animationFrameRef, audioRef, ctxState, closeCalls,
                 urlState, revokeCalls, connected, rafPending, pc, awaiting,
                 microtasks, mounted, nextClip, liveReads>>

(* A toggle that resets the published state when there is no element. *)
togglePlayback_ResetsWithoutElement(allowed) ==
  /\ UNCHANGED ticksSinceSignal
  /\ UNCHANGED threwTypeError
  /\ microtasks = <<>>
  /\ mounted
  /\ IF audioRef = NULL
       THEN UNCHANGED <<paused, events, playPromise, media>>
       ELSE IF isPlaying
         THEN /\ paused' = PausedAfterPause(audioRef)
              /\ events' = EventsAfterPause(audioRef)
              /\ playPromise' = PromiseAfterPause(audioRef)
              /\ UNCHANGED media
         ELSE IF ElemSrc(audioRef) # NULL
           THEN /\ media' = MediaAfterRewind(audioRef)
                /\ paused' = PausedAfterPlay(audioRef, allowed)
                /\ events' = EventsAfterPlay(audioRef, allowed)
                /\ UNCHANGED playPromise
           ELSE IF currentAudioUrlRef # NULL
             THEN /\ paused' = PausedAfterPlay(audioRef, allowed)
                  /\ events' = EventsAfterPlay(audioRef, allowed)
                  /\ media' = MediaAfterPlay(audioRef, allowed)
                  /\ UNCHANGED playPromise
             ELSE UNCHANGED <<paused, events, playPromise, media>>
  /\ isPlaying' = (IF audioRef = NULL THEN FALSE ELSE isPlaying)
  /\ audioData' = (IF audioRef = NULL THEN Absent ELSE audioData)
  /\ UNCHANGED <<audioContextRef, analyserRef, audioSourceRef,
                 animationFrameRef, audioRef, currentAudioUrlRef, ctxState, closeCalls,
                 urlState, revokeCalls, connected, rafPending, pc, awaiting,
                 microtasks, mounted, nextClip, liveReads>>

(* togglePlayback, lines 54-74. *)
togglePlayback(allowed) ==
  /\ UNCHANGED ticksSinceSignal
  /\ UNCHANGED threwTypeError
  /\ microtasks = <<>>
  /\ mounted
  /\ IF audioRef = NULL
       THEN UNCHANGED <<paused, events, playPromise, media>>
       ELSE IF isPlaying
         THEN /\ paused' = PausedAfterPause(audioRef)
              /\ events' = EventsAfterPause(audioRef)
              /\ playPromise' = PromiseAfterPause(audioRef)
              /\ UNCHANGED media
         ELSE IF ElemSrc(audioRef) # NULL
           THEN /\ media' = MediaAfterRewind(audioRef)
                /\ paused' = PausedAfterPlay(audioRef, allowed)
                /\ events' = EventsAfterPlay(audioRef, allowed)
                /\ UNCHANGED playPromise
           ELSE IF currentAudioUrlRef # NULL
             THEN /\ paused' = PausedAfterPlay(audioRef, allowed)
                  /\ events' = EventsAfterPlay(audioRef, allowed)
                  /\ media' = MediaAfterPlay(audioRef, allowed)
                  /\ UNCHANGED playPromise
             ELSE UNCHANGED <<paused, events, playPromise, media>>
  /\ UNCHANGED <<isPlaying, audioData, audioContextRef, analyserRef, audioSourceRef,
                 animationFrameRef, audioRef, currentAudioUrlRef, ctxState, closeCalls,
                 urlState, revokeCalls, connected, rafPending, pc, awaiting,
                 microtasks, mounted, nextClip, liveReads>>

(* The unmount effect, lines 29-39. *)
Unmount ==
  /\ UNCHANGED ticksSinceSignal
  /\ UNCHANGED <<threwTypeError, pauseRequested>>
  /\ microtasks = <<>>
  /\ mounted
  /\ mounted' = FALSE
  /\ rafPending' = (IF animationFrameRef # NULL
                      THEN CancelAnimationFrame(rafPending, animationFrameRef)
                      ELSE rafPending)
  /\ IF audioContextRef # NULL
       THEN /\ closeCalls' = [closeCalls EXCEPT ![audioContextRef] = @ + 1]
            /\ ctxState' = CtxAfterClose(audioContextRef)
       ELSE UNCHANGED <<closeCalls, ctxState>>
  /\ IF currentAudioUrlRef # NULL
       THEN /\ urlState' = UrlAfterRevoke(currentAudioUrlRef)
            /\ revokeCalls' = [revokeCalls EXCEPT ![currentAudioUrlRef] = @ + 1]
       ELSE UNCHANGED <<urlState, revokeCalls>>
  /\ UNCHANGED <<isPlaying, audioData, audioContextRef, analyserRef, audioSourceRef,
                 animationFrameRef, audioRef, currentAudioUrlRef, paused, media,
                 events, playPromise, connected, pc, awaiting, microtasks, nextClip,
                 liveReads>>

----
(* handleAudioResponse with a live frame, lines 78-85: the call starts and *)
(* awaits arrayBuffer(); when the bytes are read it publishes them.        *)
SubmitLiveFrame(b) ==
  /\ UNCHANGED ticksSinceSignal
  /\ UNCHANGED <<threwTypeError, pauseRequested>>
  /\ Len(liveReads) < MaxLiveReads
  /\ liveReads' = Append(liveReads, b)
  /\ UNCHANGED <<isPlaying, audioData, audioContextRef, analyserRef, audioSourceRef,
                 animationFrameRef, audioRef, currentAudioUrlRef, ctxState, closeCalls,
                 urlState, revokeCalls, paused, media, events, playPromise,
                 connected, rafPending, pc, awaiting, microtasks, mounted, nextClip>>

LiveFrameRead ==
  /\ UNCHANGED ticksSinceSignal
  /\ UNCHANGED <<threwTypeError, pauseRequested>>
  /\ microtasks = <<>>
  /\ liveReads # <<>>
  /\ liveReads' = Tail(liveReads)
  /\ SetAudioData(Frame(Head(liveReads)))
  /\ SetIsPlaying(TRUE)
  /\ UNCHANGED <<audioContextRef, analyserRef, audioSourceRef, animationFrameRef,
                 audioRef, currentAudioUrlRef, ctxState, closeCalls, urlState,
                 revokeCalls, paused, media, events, playPromise, connected,
                 rafPending, pc, awaiting, microtasks, mounted, nextClip>>

(* handleAudioResponse called with no payload (undefined or null): line 78  *)
(* reads .type of it, which throws a TypeError before the test of line 88; *)
(* the call ends there and the promise it returned is rejected.            *)
SubmitAbsentPayload ==
  /\ UNCHANGED ticksSinceSignal
  /\ threwTypeError' = TRUE
  /\ UNCHANGED <<isPlaying, audioData, audioContextRef, analyserRef, audioSourceRef,
                 animationFrameRef, audioRef, currentAudioUrlRef, ctxState, closeCalls,
                 urlState, revokeCalls, paused, media, events, playPromise,
                 connected, rafPending, pc, awaiting, microtasks, mounted, nextClip,
                 liveReads, pauseRequested>>

----
(* No call of handleAudioResponse with a playable clip is under way. *)
NoCallInFlight ==
  /\ microtasks = <<>>
  /\ \A c \in Clips : pc[c] \in {"idle", "played", "rejected", "threw"}

(* cleanup going on after a device context has closed. *)
Teardown ==
  \/ \E k \in Clips : ContextClosed(k)
  \/ \E c \in Clips : CleanupResume(c)

(* Building and playing a clip: the rest of handleAudioResponse, the       *)
(* listeners, the sampler and what the browser does to the element.        *)
Playback ==
  \/ \E c \in Clips, allowed \in BOOLEAN : BuildAndPlay(c, allowed)
  \/ \E c \in Clips : CatchPlayError(c)
  \/ \E c \in Clips : PlayFulfilled(c)
  \/ \E c \in Clips : MediaLoadFailed(c)
  \/ \E c \in Clips : MediaEnded(c)

(* The listeners and the sampler's frame callback as the browser runs them. *)
PlaySignal(c) == OnPlay(c) /\ UNCHANGED ticksSinceSignal

PauseSignal(c) == OnPause(c) /\ UNCHANGED ticksSinceSignal

EndedSignal(c) == OnEnded(c) /\ UNCHANGED ticksSinceSignal

FrameCallback(h) == Tick(h) /\ UNCHANGED ticksSinceSignal

Signals ==
  \/ \E c \in Clips : PlaySignal(c)
  \/ \E c \in Clips : PauseSignal(c)
  \/ \E c \in Clips : EndedSignal(c)
  \/ \E h \in Handles : FrameCallback(h)

(* The same, with the frame callbacks counted that have run since the last *)
(* listener ran.                                                           *)
PlaySignalCounted(c) == OnPlay(c) /\ ticksSinceSignal' = 0

PauseSignalCounted(c) == OnPause(c) /\ ticksSinceSignal' = 0

EndedSignalCounted(c) == OnEnded(c) /\ ticksSinceSignal' = 0

FrameCallbackCounted(h) ==
  /\ Tick(h)
  /\ ticksSinceSignal' = (IF ticksSinceSignal < 2 THEN ticksSinceSignal + 1 ELSE 2)

SignalsCounted ==
  \/ \E c \in Clips : PlaySignalCounted(c)
  \/ \E c \in Clips : PauseSignalCounted(c)
  \/ \E c \in Clips : EndedSignalCounted(c)
  \/ \E h \in Handles : FrameCallbackCounted(h)

(* The user presses the play / pause control. *)
Toggle ==
  \E allowed \in BOOLEAN :
    togglePlayback(allowed) /\ UNCHANGED pauseRequested

(* The same, with the press recorded when isPlaying is true. *)
ToggleObserved ==
  \E allowed \in BOOLEAN :
    /\ togglePlayback(allowed)
    /\ pauseRequested' = (pauseRequested \/ isPlaying)

(* What runs whoever the callers are. *)
Pipeline ==
  \/ Teardown
  \/ Playback
  \/ Signals
  \/ Toggle

PipelineCounted ==
  \/ Teardown
  \/ Playback
  \/ SignalsCounted
  \/ Toggle

(* The live-frame path of handleAudioResponse. *)
LiveFrames ==
  \/ \E b \in LivePayloads : SubmitLiveFrame(b)
  \/ LiveFrameRead

(* Any caller: payloads may be submitted while earlier calls are suspended, *)
(* and the component may unmount.                                           *)
Next ==
  \/ \E c \in Clips : HandleAudioResponse(c)
  \/ Unmount
  \/ PipelineCounted
  \/ LiveFrames

Spec == Init /\ [][Next]_vars

(* A caller that submits a playable clip only when no earlier call is      *)
(* under way, on a component that stays mounted.                           *)
SubmitSequential(c) == NoCallInFlight /\ HandleAudioResponse(c)

NextSeq ==
  \/ \E c \in Clips : SubmitSequential(c)
  \/ Pipeline

SpecSeq == Init /\ [][NextSeq]_vars

(* A caller that submits each playable clip after the first while the call *)
(* for the clip before it is still under way.                              *)
SubmitImmediately(c) ==
  /\ c > 1 => pc[c - 1] \in {"awaitClose", "awaitCleanup", "awaitPlay"}
  /\ HandleAudioResponse(c)

NextBackToBack ==
  \/ \E c \in Clips : SubmitImmediately(c)
  \/ Pipeline

SpecBackToBack == Init /\ [][NextBackToBack]_vars

(* A session with one playable clip, submitted at any time, live frames at *)
(* any time and a user at the control, on a component that stays mounted.  *)
SubmitFirstClip == nextClip = 1 /\ HandleAudioResponse(1)

NextOneClip ==
  \/ SubmitFirstClip
  \/ Playback
  \/ Signals
  \/ ToggleObserved
  \/ LiveFrames

SpecOneClip == Init /\ [][NextOneClip]_vars

(* The browser's event loop runs every continuation that is ready and      *)
(* dispatches every event that is queued.                                  *)
EventLoopFair ==
  /\ WF_vars(\E c \in Clips, allowed \in BOOLEAN : BuildAndPlay(c, allowed))
  /\ WF_vars(\E c \in Clips : CatchPlayError(c))
  /\ WF_vars(\E c \in Clips : PlaySignal(c))
  /\ WF_vars(\E c \in Clips : PauseSignal(c))
  /\ WF_vars(\E c \in Clips : EndedSignal(c))
  /\ WF_vars(LiveFrameRead)

SpecOneClipFair == SpecOneClip /\ EventLoopFair

(* The same session with a caller that may also pass no payload at all. *)
NextAnyPayload ==
  \/ NextOneClip
  \/ SubmitAbsentPayload

SpecAnyPayload == Init /\ [][NextAnyPayload]_vars

----
(* The device contexts that hold the output device: created and not yet    *)
(* closed.                                                                 *)
OpenContexts == {k \in Clips : ctxState[k] \in {"running", "closing"}}

(* The object URLs created and not revoked. *)
LiveUrls == {u \in Clips : urlState[u] = "live"}

(* Call c of handleAudioResponse has returned or thrown. *)
Completed(c) == pc[c] \in {"played", "rejected", "threw"}

(* The graph built for clip c is whole and current: every ref points to    *)
(* the objects of call c, the context runs and the object URL is live.     *)
GraphIntact(c) ==
  /\ audioRef = c
  /\ audioContextRef = c
  /\ analyserRef = c
  /\ audioSourceRef = c
  /\ currentAudioUrlRef = c
  /\ ctxState[c] = "running"
  /\ urlState[c] = "live"
  /\ ElemSrc(c) = c
  /\ c \in connected

----
(* C1: in every reachable state, whatever the interleaving of clip          *)
(* submissions, at most one device context is open, and every context that  *)
(* is not yet closed is the one audioContextRef holds (no context is        *)
(* created, and no reference dropped, while an earlier one is unclosed).    *)
C1_AtMostOneOpenContext ==
  /\ Cardinality(OpenContexts) <= 1
  /\ \A k \in OpenContexts : audioContextRef = k

(* C2: B1 is submitted and B2 while B1's call is still under way; once both *)
(* calls have completed, one teardown and rebuild lie between them (B1's    *)
(* context was closed by one close()), the only open context and the        *)
(* current element are B2's, B1's URL is revoked and B1's element is        *)
(* paused.                                                                  *)
C2_BackToBackEndsOnSecond ==
  (Completed(1) /\ Completed(2)) =>
    /\ OpenContexts = {2}
    /\ ctxState[1] = "closed"
    /\ closeCalls[1] = 1
    /\ audioRef = 2
    /\ ElemSrc(audioRef) = 2
    /\ urlState[1] = "revoked"
    /\ paused[1]

(* C3: after N >= 1 sequential clip submissions, with no call under way,    *)
(* exactly the context of clip N is open, exactly the URL of clip N is      *)
(* live, the current element and the retained URL are clip N's, and the     *)
(* URLs of clips 1..N-1 are revoked and their contexts closed.              *)
C3_SequentialExclusive ==
  (NoCallInFlight /\ nextClip > 1) =>
    LET n == nextClip - 1 IN
      /\ OpenContexts = {n}
      /\ ctxState[n] = "running"
      /\ LiveUrls = {n}
      /\ audioRef = n
      /\ ElemSrc(audioRef) = n
      /\ currentAudioUrlRef = n
      /\ \A k \in 1..(n - 1) : urlState[k] = "revoked" /\ ctxState[k] = "closed"

C3_Witness == NoCallInFlight /\ nextClip > 2 /\ pc[2] = "played"

(* C4: a frame callback that was requested before the sampler loop was      *)
(* cancelled (by the pause listener, the ended listener or cleanup) never   *)
(* runs after the cancellation.  Every cancellation leaves                  *)
(* animationFrameRef absent and only a new request sets it, so a callback   *)
(* that runs while animationFrameRef is absent was requested before the     *)
(* last cancellation: no frame callback runs in such a state.               *)
C4_NoTickAfterCancel ==
  [][(\E h \in Handles : Tick(h)) => animationFrameRef # NULL]_vars

(* C5: whenever no handler is under way and at most one frame callback has  *)
(* run since the last play, pause or ended listener, the published          *)
(* snapshot is present exactly when isPlaying is true.                      *)
C5_SnapshotIffPlaying ==
  (mounted /\ NoCallInFlight /\ liveReads = <<>> /\ ticksSinceSignal <= 1) =>
    ((audioData # Absent) <=> isPlaying)

(* The state cleanup is meant to leave: every graph handle absent, no       *)
(* frame callback pending, the snapshot absent, isPlaying false.            *)
TornDown ==
  /\ audioSourceRef = NULL
  /\ analyserRef = NULL
  /\ audioContextRef = NULL
  /\ animationFrameRef = NULL
  /\ rafPending = {}
  /\ audioData = Absent
  /\ ~isPlaying

(* C8: cleanup is idempotent from any reachable state.  A run of cleanup    *)
(* never throws and ends in the torn-down state; a run that starts in the   *)
(* torn-down state (a second run in a row) ends at once, releases nothing   *)
(* (no close(), no revoke, no cancel) and changes nothing.                  *)
C8_CleanupIdempotent ==
  [][\A c \in Clips :
       /\ HandleAudioResponse(c) =>
            /\ pc'[c] # "threw"
            /\ pc'[c] = "awaitCleanup" => TornDown'
            /\ TornDown =>
                 /\ pc'[c] = "awaitCleanup"
                 /\ UNCHANGED <<isPlaying, audioData, audioContextRef, analyserRef,
                                audioSourceRef, animationFrameRef, audioRef,
                                currentAudioUrlRef, ctxState, closeCalls, urlState,
                                revokeCalls, paused, media, events, connected,
                                rafPending>>
       /\ CleanupResume(c) => TornDown']_vars

(* C9: no object URL is revoked while the element bound to it is playing or *)
(* while the device context built for its clip is not yet closed.           *)
C9_RevokedOnlyAfterTeardown ==
  \A c \in Clips :
    urlState[c] = "revoked" => (paused[c] /\ ctxState[c] = "closed")

(* C10: after unmount the pipeline is released and stays released: every    *)
(* element is paused, no device context runs, no object URL is live and no  *)
(* frame callback is pending.                                               *)
C10_ReleasedAfterUnmount ==
  ~mounted =>
    /\ \A c \in Clips : paused[c]
    /\ \A c \in Clips : ctxState[c] # "running"
    /\ LiveUrls = {}
    /\ rafPending = {}

(* The ended listener has run for the current clip c and nothing else is    *)
(* going on: the element is paused at the end of its clip, no event of it   *)
(* is queued, isPlaying is false, no call is under way.                     *)
EndedHandled(c) ==
  /\ NoCallInFlight
  /\ audioRef = c
  /\ media[c] = "end"
  /\ paused[c]
  /\ events[c] = <<>>
  /\ ~isPlaying

(* C6: after the ended signal of clip c was handled, one togglePlayback()   *)
(* with no new submission finds the graph and the object URL of c intact    *)
(* and leaves them so, rewinds the element of c to the start and, unless    *)
(* the browser refuses, starts it and queues its play event; the play       *)
(* listener of c then sets isPlaying and restarts the sampler (a snapshot   *)
(* is published and a frame callback is pending under the stored handle).   *)
C6_ReplayAfterEnded ==
  [][\A c \in Clips :
       /\ \A allowed \in BOOLEAN :
            (EndedHandled(c) /\ togglePlayback(allowed)) =>
              /\ GraphIntact(c)
              /\ GraphIntact(c)'
              /\ media'[c] = "start"
              /\ allowed => (~paused'[c] /\ events'[c] = <<"play">>)
       /\ (NoCallInFlight /\ audioRef = c /\ pc[c] = "played" /\ OnPlay(c)) =>
            /\ isPlaying'
            /\ audioData' = Sample
            /\ animationFrameRef' # NULL
            /\ animationFrameRef' \in rafPending']_vars

C6_Witness == \E c \in Clips : EndedHandled(c) /\ GraphIntact(c) /\ pc[c] = "played"

(* The catch block has run for the current clip c and nothing has happened  *)
(* since: the element is paused with a loaded resource and no queued event. *)
JustRejected(c) ==
  /\ NoCallInFlight
  /\ pc[c] = "rejected"
  /\ audioRef = c
  /\ paused[c]
  /\ media[c] # "error"
  /\ events[c] = <<>>
  /\ ~isPlaying

(* C7: when the play request of line 183 for clip c is rejected, the catch  *)
(* block leaves isPlaying false, the snapshot absent and the graph of c     *)
(* whole (context running, analyser, source, element bound to the live URL  *)
(* of c); a togglePlayback() right afterwards requests play on c, and when  *)
(* the browser accepts, the play listener of c sets isPlaying.              *)
C7_RejectedAutoplayKeepsGraph ==
  [][\A c \in Clips :
       /\ CatchPlayError(c) =>
            /\ ~isPlaying'
            /\ audioData' = Absent
            /\ GraphIntact(c)'
       /\ \A allowed \in BOOLEAN :
            (JustRejected(c) /\ togglePlayback(allowed)) =>
              /\ GraphIntact(c)'
              /\ allowed => (~paused'[c] /\ events'[c] = <<"play">>)
       /\ (pc[c] = "rejected" /\ audioRef = c /\ OnPlay(c)) => isPlaying']_vars

C7_Witness ==
  \E c \in Clips :
    /\ pc[c] = "rejected"
    /\ GraphIntact(c)
    /\ ~paused[c]
    /\ media[c] = "start"
    /\ isPlaying
    /\ animationFrameRef \in rafPending

----
(* No playable clip was ever accepted: no element, no graph, no object URL. *)
Idle ==
  /\ nextClip = 1
  /\ audioRef = NULL
  /\ audioContextRef = NULL
  /\ analyserRef = NULL
  /\ audioSourceRef = NULL
  /\ currentAudioUrlRef = NULL
  /\ animationFrameRef = NULL

(* C11: a live-frame payload with bytes b publishes exactly b as the        *)
(* snapshot and sets isPlaying, and does no graph work: neither the call    *)
(* nor its continuation changes the device context, the analyser, the       *)
(* source node, the element, the object URL or the frame handle, nor any    *)
(* of the objects behind them.                                              *)
C11_LiveFramePublishes ==
  [][/\ \A b \in LivePayloads :
          SubmitLiveFrame(b) =>
            /\ liveReads' = Append(liveReads, b)
            /\ UNCHANGED <<audioContextRef, analyserRef, audioSourceRef, audioRef,
                           currentAudioUrlRef, animationFrameRef, ctxState, closeCalls,
                           urlState, revokeCalls, paused, media, events, connected,
                           rafPending, threwTypeError>>
     /\ LiveFrameRead =>
          /\ audioData'.kind = "frame"
          /\ audioData'.bytes = Head(liveReads)
          /\ isPlaying'
          /\ UNCHANGED <<audioContextRef, analyserRef, audioSourceRef, audioRef,
                         currentAudioUrlRef, animationFrameRef, ctxState, closeCalls,
                         urlState, revokeCalls, paused, media, events, connected,
                         rafPending, threwTypeError>>]_vars

(* Bytes 10, 20, 30 submitted from Idle: they are the snapshot, isPlaying   *)
(* is true and there is still no graph.                                     *)
C11_Witness ==
  /\ Idle
  /\ liveReads = <<>>
  /\ audioData.bytes = <<10, 20, 30>>
  /\ isPlaying
  /\ OpenContexts = {}
  /\ LiveUrls = {}

(* C12: an absent payload is a no-op: handleAudioResponse raises no error   *)
(* and leaves isPlaying, the snapshot, the graph handles, the element, the  *)
(* pending frame callback and the retained object URL as they were.         *)
C12_AbsentPayloadNoOp ==
  [][SubmitAbsentPayload =>
       /\ ~threwTypeError'
       /\ UNCHANGED <<isPlaying, audioData, audioContextRef, analyserRef,
                      audioSourceRef, audioRef, currentAudioUrlRef, animationFrameRef,
                      rafPending, ctxState, urlState, paused, events, pc>>]_vars

(* C13: whatever the interleaving of clip submissions and unmount, close()  *)
(* is called at most once on each device context and revokeObjectURL at     *)
(* most once on each object URL.                                            *)
C13_ReleasedAtMostOnce ==
  \A k \in Clips : closeCalls[k] <= 1 /\ revokeCalls[k] <= 1

(* C14: at most one frame callback is pending at any time, and when         *)
(* animationFrameRef is absent none is.                                     *)
C14_OnePendingTick ==
  /\ Cardinality(rafPending) <= 1
  /\ animationFrameRef = NULL => rafPending = {}

(* The current clip's element is playing and has been reported so: its     *)
(* element is not paused, none of its events is queued, isPlaying is true  *)
(* and the sampler's next frame callback is pending.                       *)
CurrentPlaying ==
  /\ audioRef # NULL
  /\ ~paused[audioRef]
  /\ events[audioRef] = <<>>
  /\ isPlaying
  /\ animationFrameRef # NULL
  /\ animationFrameRef \in rafPending

(* C15: an event of a superseded element (one that is no longer the         *)
(* current element) never changes the state of the current clip: when the   *)
(* current element is playing, a play, pause or ended listener of another   *)
(* element leaves isPlaying true and the sampler's callback pending.        *)
C15_SupersededSignalsIgnored ==
  [][\A c \in Clips :
       (CurrentPlaying /\ c # audioRef /\ (OnPlay(c) \/ OnPause(c) \/ OnEnded(c))) =>
         /\ isPlaying'
         /\ animationFrameRef' # NULL
         /\ animationFrameRef' \in rafPending']_vars

(* C16: whenever togglePlayback() is called while isPlaying is true,        *)
(* isPlaying eventually becomes false, provided the event loop delivers     *)
(* every queued event.                                                      *)
C16_ToggleEventuallyStops == pauseRequested ~> ~isPlaying

(* A step that runs a play, pause or ended listener or a part of a          *)
(* submission (handleAudioResponse up to its catch block).                  *)
HandlerOrSubmission ==
  \/ \E c \in Clips : OnPlay(c) \/ OnPause(c) \/ OnEnded(c)
  \/ \E c \in Clips : HandleAudioResponse(c) \/ CleanupResume(c) \/ CatchPlayError(c)
  \/ LiveFrameRead

(* C17 as stated: togglePlayback() itself changes neither isPlaying nor the *)
(* snapshot nor the device context, the analyser, the source node, the      *)
(* frame handle or the retained object URL, and isPlaying and the snapshot  *)
(* change only in a step that runs a play / pause / ended listener or a     *)
(* submission.                                                              *)
C17_OnlyHandlersChangeState ==
  [][/\ \A allowed \in BOOLEAN :
          togglePlayback(allowed) =>
            UNCHANGED <<isPlaying, audioData, audioContextRef, analyserRef,
                        audioSourceRef, animationFrameRef, currentAudioUrlRef,
                        ctxState, closeCalls, urlState, revokeCalls, connected,
                        rafPending>>
     /\ (isPlaying' # isPlaying \/ audioData' # audioData) => HandlerOrSubmission]_vars

(* C17, amended: togglePlayback() itself changes neither isPlaying nor the  *)
(* snapshot nor the device context, the analyser, the source node, the      *)
(* frame handle or the retained object URL (nor the objects behind them).   *)
(* isPlaying changes only in a step that runs a play / pause / ended        *)
(* listener or a submission; the snapshot changes only in such a step or    *)
(* in a frame callback of the sampler.                                      *)
C17_ToggleChangesNoState ==
  [][/\ \A allowed \in BOOLEAN :
          togglePlayback(allowed) =>
            UNCHANGED <<isPlaying, audioData, audioContextRef, analyserRef,
                        audioSourceRef, animationFrameRef, currentAudioUrlRef,
                        ctxState, closeCalls, urlState, revokeCalls, connected,
                        rafPending>>
     /\ isPlaying' # isPlaying => HandlerOrSubmission
     /\ audioData' # audioData => (HandlerOrSubmission \/ \E h \in Handles : Tick(h))]_vars

(* togglePlayback() has asked the playing element to pause and the pause    *)
(* event is not dispatched yet: isPlaying is still true, the snapshot is    *)
(* still published.                                                         *)
C17_Witness ==
  /\ pauseRequested
  /\ audioRef # NULL
  /\ paused[audioRef]
  /\ events[audioRef] = <<"pause">>
  /\ isPlaying
  /\ audioData # Absent

(* C18: a play request of togglePlayback() that the browser rejects raises  *)
(* nothing past togglePlayback (no call of handleAudioResponse changes its  *)
(* course, no error is recorded): isPlaying stays false, the snapshot, the  *)
(* graph, the element's paused attribute and event queue and the retained   *)
(* object URL are unchanged, and with no call under way that URL is the     *)
(* one of the most recently submitted clip.                                 *)
C18_RejectedTogglePlay ==
  [][(~isPlaying /\ audioRef # NULL /\ togglePlayback(FALSE)) =>
       /\ ~isPlaying'
       /\ UNCHANGED <<audioData, audioContextRef, analyserRef, audioSourceRef,
                      animationFrameRef, audioRef, currentAudioUrlRef, ctxState,
                      closeCalls, urlState, revokeCalls, connected, rafPending,
                      paused, events, pc, threwTypeError>>
       /\ NoCallInFlight => currentAudioUrlRef' = nextClip - 1]_vars

(* The second clip's autoplay was rejected and nothing is going on: the     *)
(* state in which a toggle's play request is made, and left by a rejected   *)
(* one.                                                                     *)
C18_Witness ==
  /\ NoCallInFlight
  /\ nextClip > 2
  /\ pc[2] = "rejected"
  /\ GraphIntact(2)
  /\ paused[2]
  /\ events[2] = <<>>
  /\ ~isPlaying
  /\ audioData = Absent

(* C19: in the Idle state togglePlayback() is a no-op, however often it is  *)
(* called: no play or pause request reaches any element and isPlaying, the  *)
(* snapshot and every handle are unchanged.                                 *)
C19_IdleToggleNoOp ==
  [][\A allowed \in BOOLEAN :
       (Idle /\ togglePlayback(allowed)) =>
         UNCHANGED <<isPlaying, audioData, audioContextRef, analyserRef,
                     audioSourceRef, animationFrameRef, audioRef, currentAudioUrlRef,
                     ctxState, closeCalls, urlState, revokeCalls, paused, media,
                     events, playPromise, connected, rafPending, pc, awaiting,
                     microtasks, mounted, nextClip, liveReads, threwTypeError>>]_vars

(* togglePlayback() was called in the Idle state while a live frame had     *)
(* isPlaying true: the frame is still published, there is still no graph.   *)
C19_Witness ==
  /\ Idle
  /\ pauseRequested
  /\ isPlaying
  /\ audioData = Frame(<<10, 20, 30>>)
  /\ \A c \in Clips : paused[c] /\ events[c] = <<>>

====
